---------------------------- MODULE Spec2Model ----------------------------
(***************************************************************************)
(* Model of the structure-graph extractor (visualize_structures_3d.py).    *)
(*                                                                         *)
(* build_graph discovers the Python files under a path and folds           *)
(* build_graph_from_file over them, mutating one shared networkx Graph.    *)
(* nx.Graph is an undirected simple graph: nodes keep their insertion      *)
(* order, a node's attributes are a dictionary that add_node updates, an   *)
(* edge is an unordered pair of nodes with one attribute dictionary, and   *)
(* add_edge creates the endpoints it does not find.                        *)
(*                                                                         *)
(* A source file is modelled by its syntax tree; node keys are the very    *)
(* strings the code formats.                                               *)
(***************************************************************************)
EXTENDS Integers, Sequences, FiniteSets, TLC

VARIABLES
    path,      \* build_graph: its argument, [kind, at]
    disk,      \* the files at or under the path: path -> [ok, body]
    py_files,  \* build_graph: the list returned by find_python_files
    idx,       \* build_graph: position of the for loop in py_files
    G,         \* build_graph: the shared graph
    pc,        \* build_graph: "start", "loop", "returned" or "raised"
    run,       \* number of the current build_graph invocation
    prev,      \* the graph returned by the previous invocation
    printed,   \* build_graph: the messages printed by this invocation
    ve         \* video_edit.py: the state of one invocation of the editor

vars == <<path, disk, py_files, idx, G, pc, run, prev, printed, ve>>

(***************************************************************************)
(* Bounds of the model.                                                    *)
(***************************************************************************)
MaxFiles == 2     \* files under the path
MaxStmts == 3     \* top-level statements of all files together
MaxRuns  == 2     \* invocations of build_graph that are compared

(***************************************************************************)
(* Sequence helpers.                                                       *)
(***************************************************************************)
RECURSIVE Flatten(_)
Flatten(ss) == IF ss = <<>> THEN <<>> ELSE Head(ss) \o Flatten(Tail(ss))

Range(s) == { s[i] : i \in DOMAIN s }

RECURSIVE JoinComma(_)
\* ', '.join(parts)
JoinComma(parts) ==
    IF parts = <<>> THEN ""
    ELSE IF Len(parts) = 1 THEN parts[1]
    ELSE parts[1] \o ", " \o JoinComma(Tail(parts))

(***************************************************************************)
(* Syntax trees (the ast module's node classes the code inspects).         *)
(***************************************************************************)
NoneNode == [type |-> "None"]

Name(id)              == [type |-> "Name", id |-> id]
Constant(t, src)      == [type |-> "Constant", t |-> t, src |-> src] \* t = type(value).__name__
ListLit(elts)         == [type |-> "List", elts |-> elts]
SetLit(elts)          == [type |-> "Set", elts |-> elts]
TupleLit(elts)        == [type |-> "Tuple", elts |-> elts]
DictLit(keys, values) == [type |-> "Dict", keys |-> keys, values |-> values]
Attribute(text)       == [type |-> "Attribute", text |-> text] \* text = ast.unparse
Call(func, args)      == [type |-> "Call", func |-> func, args |-> args]

Alias(name, asname)           == [name |-> name, asname |-> asname]
Import(names)                 == [type |-> "Import", names |-> names]
ImportFrom(module, names)     == [type |-> "ImportFrom", module |-> module, names |-> names]
ClassDef(name, bases, body)   == [type |-> "ClassDef", name |-> name, bases |-> bases, body |-> body]
FunctionDef(name, params, body) ==
    [type |-> "FunctionDef", name |-> name, params |-> params, body |-> body]
Assign(targets, value)        == [type |-> "Assign", targets |-> targets, value |-> value]
AnnAssign(target, annotation, value) ==
    [type |-> "AnnAssign", target |-> target, annotation |-> annotation, value |-> value]
ExprStmt(value)               == [type |-> "Expr", value |-> value]
IfStmt(body)                  == [type |-> "If", body |-> body]
Module(body)                  == [type |-> "Module", body |-> body]

IsAST(n) == n.type # "None"

\* ast.iter_child_nodes: the child nodes in field order, None entries skipped
Children(n) ==
    SelectSeq(
        CASE n.type = "Module"      -> n.body
          [] n.type = "ClassDef"    -> n.bases \o n.body
          [] n.type = "FunctionDef" -> n.body
          [] n.type = "If"          -> n.body
          [] n.type = "Assign"      -> n.targets \o <<n.value>>
          [] n.type = "AnnAssign"   -> <<n.target, n.value>>
          [] n.type = "Expr"        -> <<n.value>>
          [] n.type = "Call"        -> <<n.func>> \o n.args
          [] n.type \in {"List", "Set", "Tuple"} -> n.elts
          [] n.type = "Dict"        -> n.keys \o n.values
          [] OTHER                  -> <<>>,
        IsAST)

RECURSIVE WalkLevel(_)
WalkLevel(level) ==
    IF level = <<>> THEN <<>>
    ELSE level \o WalkLevel(Flatten([i \in DOMAIN level |-> Children(level[i])]))

\* ast.walk(tree): breadth-first, the tree itself first
Walk(tree) == WalkLevel(<<tree>>)

(***************************************************************************)
(* networkx.Graph.  nodes: the keys in insertion order; attrs: each node's *)
(* attribute dictionary; edges: the attribute "relation" of each unordered *)
(* pair.  Two history fields record what the calls did and are read by no  *)
(* operation: implicit, the nodes that add_edge had to create, and added,  *)
(* every (pair, relation) ever passed to add_edge.                         *)
(***************************************************************************)
NoAttrs == [a \in {} |-> ""]

EmptyGraph ==
    [nodes |-> <<>>, attrs |-> [n \in {} |-> NoAttrs], edges |-> [e \in {} |-> ""],
     implicit |-> {}, added |-> {}]

has_node(g, n) == n \in DOMAIN g.attrs

\* G.nodes[n].get(a): "<None>" stands for Python's None
Get(g, n, a) == IF a \in DOMAIN g.attrs[n] THEN g.attrs[n][a] ELSE "<None>"

add_node(g, n, a) ==
    IF has_node(g, n)
    THEN [g EXCEPT !.attrs[n] = a @@ @]
    ELSE [g EXCEPT !.nodes = Append(@, n), !.attrs = (n :> a) @@ @]

\* the endpoint of a new edge: created without attributes when it is missing
Touch(g, n) ==
    IF has_node(g, n) THEN g
    ELSE [g EXCEPT !.nodes = Append(@, n), !.attrs = (n :> NoAttrs) @@ @,
                   !.implicit = @ \cup {n}]

add_edge(g, u, v, r) ==
    LET g2 == Touch(Touch(g, u), v)
    IN [g2 EXCEPT !.edges = ({u, v} :> r) @@ @, !.added = @ \cup {<<{u, v}, r>>}]

HasEdge(g, u, v, r) == {u, v} \in DOMAIN g.edges /\ g.edges[{u, v}] = r

IndexOf(g, n) == CHOOSE i \in DOMAIN g.nodes : g.nodes[i] = n

\* G.edges(): each edge once, from the endpoint that comes first in node order
EdgeList(g) ==
    { <<u, v>> \in Range(g.nodes) \X Range(g.nodes) :
        {u, v} \in DOMAIN g.edges /\ IndexOf(g, u) <= IndexOf(g, v) }

RECURSIVE FoldSeq(_, _, _)
\* for x in s: acc = Op(acc, x)   (each step is evaluated before the next)
FoldSeq(Op(_, _), acc, s) ==
    IF s = <<>> THEN acc
    ELSE CHOOSE r \in { FoldSeq(Op, a, Tail(s)) : a \in {Op(acc, Head(s))} } : TRUE

(***************************************************************************)
(* guess_type                                                              *)
(***************************************************************************)
TYPE_COLOR ==
    {"list", "dict", "set", "tuple", "class", "function", "int", "str",
     "float", "bool", "module", "import", "unknown"}

\* str.lower() on the identifiers of the model
Lower(s) ==
    CASE s = "List" -> "list"
      [] s = "Dict" -> "dict"
      [] s = "Module" -> "module"
      [] s = "A"    -> "a"
      [] s = "B"    -> "b"
      [] s = "O"    -> "o"
      [] OTHER      -> s

guess_type(n) ==
    CASE n.type = "List"  -> "list"
      [] n.type = "Dict"  -> "dict"
      [] n.type = "Set"   -> "set"
      [] n.type = "Tuple" -> "tuple"
      [] n.type = "Constant" -> IF n.t \in TYPE_COLOR THEN n.t ELSE "unknown"
      [] n.type = "Call" /\ n.func.type = "Name" ->
            IF Lower(n.func.id) \in TYPE_COLOR THEN Lower(n.func.id) ELSE "unknown"
      [] OTHER -> "unknown"

(***************************************************************************)
(* build_graph_from_file, pass by pass.  m is module_name.                 *)
(***************************************************************************)
\* os.path.basename of a path given by its components
Basename(p) == p[Len(p)]

\* alias.asname if alias.asname else alias.name
BoundName(alias) == IF alias.asname # "" THEN alias.asname ELSE alias.name

\* imported_names after the import loop
ImportedNames(walk) ==
    UNION { IF walk[i].type = "Import"
               \/ (walk[i].type = "ImportFrom" /\ walk[i].module # "")
            THEN { BoundName(walk[i].names[j]) : j \in DOMAIN walk[i].names }
            ELSE {} : i \in DOMAIN walk }

AddImport(g, m, import_name) ==
    LET g1 == IF has_node(g, import_name) THEN g
              ELSE add_node(g, import_name, [kind |-> "import", label |-> import_name])
    IN add_edge(g1, m, import_name, "imports")

ImportPass(g0, m, walk) ==
    FoldSeq(LAMBDA g, n :
                IF n.type = "Import"
                THEN FoldSeq(LAMBDA h, alias : AddImport(h, m, alias.name), g, n.names)
                ELSE IF n.type = "ImportFrom" /\ n.module # ""
                THEN AddImport(g, m, n.module)
                ELSE g,
            g0, walk)

IsName(n) == n.type = "Name"

\* the bare-name bases of a class declaration
BaseNames(cls) ==
    LET named == SelectSeq(cls.bases, IsName)
    IN [i \in DOMAIN named |-> named[i].id]

\* the class nodes labelled base_name, as positions in node order
ClassNodesLabelled(g, base_name) ==
    { i \in DOMAIN g.nodes :
        Get(g, g.nodes[i], "label") = base_name /\ Get(g, g.nodes[i], "kind") = "class" }

Min(S) == CHOOSE x \in S : \A y \in S : x <= y

\* variant: the same-module lookup uses the bare base name as the key
ResolveBaseUnqualified(g, m, class_label, base_name) ==
    LET hits == ClassNodesLabelled(g, base_name)
    IN IF has_node(g, base_name)
       THEN add_edge(g, base_name, class_label, "inherits")
       ELSE IF hits # {}
       THEN add_edge(g, g.nodes[Min(hits)], class_label, "inherits")
       ELSE g

ResolveBase(g, m, class_label, base_name) ==
    LET base_label == m \o "::" \o base_name
        hits == ClassNodesLabelled(g, base_name)
    IN IF has_node(g, base_label)
       THEN add_edge(g, base_label, class_label, "inherits")
       ELSE IF hits # {}
       THEN add_edge(g, g.nodes[Min(hits)], class_label, "inherits")
       ELSE g

AddMethod(g, m, class_label, fn) ==
    LET fn_label == class_label \o "." \o fn.name \o "()"
        g1 == add_node(g, fn_label,
                       [kind |-> "function", label |-> fn.name \o "()",
                        params |-> fn.params, module |-> m])
    IN add_edge(g1, class_label, fn_label, "method")

IsFunctionDef(n) == n.type = "FunctionDef"

AddClass(g, m, cls) ==
    LET class_label == m \o "::" \o cls.name
        bases == BaseNames(cls)
        g1 == add_node(g, class_label,
                       [kind |-> "class", label |-> cls.name, bases |-> bases,
                        module |-> m])
        g2 == add_edge(g1, m, class_label, "contains")
        g3 == FoldSeq(LAMBDA h, b : ResolveBase(h, m, class_label, b), g2, bases)
    IN FoldSeq(LAMBDA h, fn : AddMethod(h, m, class_label, fn), g3,
               SelectSeq(cls.body, IsFunctionDef))

ClassPass(g0, m, walk) ==
    FoldSeq(LAMBDA g, n : IF n.type = "ClassDef" THEN AddClass(g, m, n) ELSE g,
            g0, walk)

\* variant: a declaration under an existing key overwrites the node
AddFunctionOverwrite(g, m, fn) ==
    LET func_label == m \o "::" \o fn.name \o "()"
    IN add_edge(add_node(g, func_label,
                         [kind |-> "function", label |-> fn.name \o "()",
                          params |-> fn.params, module |-> m]),
                m, func_label, "contains")

AddFunction(g, m, fn) ==
    LET func_label == m \o "::" \o fn.name \o "()"
    IN IF has_node(g, func_label) THEN g
       ELSE add_edge(add_node(g, func_label,
                              [kind |-> "function", label |-> fn.name \o "()",
                               params |-> fn.params, module |-> m]),
                     m, func_label, "contains")

FunctionPass(g0, m, body) ==
    FoldSeq(LAMBDA g, fn : AddFunction(g, m, fn), g0, SelectSeq(body, IsFunctionDef))

AddVar(g, m, id, kind) ==
    LET var_label == m \o "::" \o id
    IN add_edge(add_node(g, var_label, [kind |-> kind, label |-> id, module |-> m]),
                m, var_label, "var")

VisitAssign(g, m, n) ==
    LET val_type == guess_type(n.value)
    IN FoldSeq(LAMBDA h, tgt : AddVar(h, m, tgt.id, val_type), g,
               SelectSeq(n.targets, IsName))

VisitAnnAssign(g, m, n) ==
    LET ann == n.annotation
        val_type == IF n.value.type # "None" THEN guess_type(n.value) ELSE ann
        kind == IF val_type \in TYPE_COLOR THEN val_type
                ELSE IF ann \in TYPE_COLOR THEN ann ELSE "unknown"
    IN IF n.target.type = "Name" THEN AddVar(g, m, n.target.id, kind) ELSE g

\* dir(__builtins__) of the script, restricted to the identifiers of the model
Builtins == {"print", "len", "list", "dict"}

\* the rendering of one positional argument
RenderArg(arg) ==
    CASE arg.type = "Name"     -> arg.id
      [] arg.type = "Constant" -> arg.t
      [] OTHER                 -> arg.text

\* the callee's display name, "" when the callee is neither a name nor an attribute
FuncName(call) ==
    CASE call.func.type = "Name"      -> call.func.id \o "()"
      [] call.func.type = "Attribute" -> call.func.text \o "()"
      [] OTHER                        -> ""

\* func_name.replace('()', '') for a callee rendered without inner "()"
CalleeText(call) ==
    CASE call.func.type = "Name"      -> call.func.id
      [] call.func.type = "Attribute" -> call.func.text
      [] OTHER                        -> ""

VisitCall(g, m, call, imported_names) ==
    LET func_name == FuncName(call)
        is_builtin == \/ call.func.type = "Attribute"
                      \/ /\ call.func.type = "Name"
                         /\ (call.func.id \in imported_names \/ call.func.id \in Builtins)
        call_args == [i \in DOMAIN call.args |-> RenderArg(call.args[i])]
        usage == CalleeText(call) \o "(" \o JoinComma(call_args) \o ")"
        g1 == IF has_node(g, func_name)
              THEN IF call_args # <<>> /\ Get(g, func_name, "kind") = "builtin-function"
                   THEN [g EXCEPT !.attrs[func_name] =
                            [usage_example |-> usage] @@
                            (IF "params" \in DOMAIN @ THEN @
                             ELSE [params |-> call_args] @@ @)]
                   ELSE g
              ELSE IF is_builtin
              THEN add_edge(add_node(g, func_name,
                                     [kind |-> "builtin-function", label |-> func_name,
                                      params |-> call_args,
                                      usage_example |-> IF call_args # <<>> THEN usage
                                                        ELSE func_name]),
                            m, func_name, "calls")
              ELSE g
    IN IF func_name = "" THEN g
       ELSE FoldSeq(LAMBDA h, arg :
                        IF arg.type = "Name" /\ has_node(h, arg.id)
                        THEN add_edge(h, arg.id, func_name, "arg")
                        ELSE h,
                    g1, call.args)

VarCallPass(g0, m, walk, imported_names) ==
    FoldSeq(LAMBDA g, n :
                CASE n.type = "Assign"    -> VisitAssign(g, m, n)
                  [] n.type = "AnnAssign" -> VisitAnnAssign(g, m, n)
                  [] n.type = "Call"      -> VisitCall(g, m, n, imported_names)
                  [] OTHER                -> g,
            g0, walk)

\* ast.unparse of a key expression
Unparse(n) ==
    CASE n.type = "Name"      -> n.id
      [] n.type = "Constant"  -> n.src
      [] n.type = "Attribute" -> n.text

\* One (key, value) pair of a dict literal.  A "**mapping" entry has the key
\* None, and ast.unparse(None) raises AttributeError.
ExpandDictItem(st, m, parent, k, v) ==
    IF st.raised THEN st
    ELSE IF k.type = "None" THEN [st EXCEPT !.raised = TRUE]
    ELSE LET parent_label == m \o "::" \o parent
             child_name == parent_label \o "." \o Unparse(k)
             g1 == add_node(st.G, child_name,
                            [kind |-> guess_type(v),
                             label |-> parent \o "." \o Unparse(k), module |-> m])
         IN [st EXCEPT !.G = IF has_node(g1, parent_label)
                             THEN add_edge(g1, parent_label, child_name, "dict-item")
                             ELSE g1]

ExpandSeqItem(st, m, parent, i, elt) ==
    LET parent_label == m \o "::" \o parent
        child_name == parent_label \o "[" \o ToString(i - 1) \o "]"
        g1 == add_node(st.G, child_name,
                       [kind |-> guess_type(elt),
                        label |-> parent \o "[" \o ToString(i - 1) \o "]", module |-> m])
    IN IF st.raised THEN st
       ELSE [st EXCEPT !.G = IF has_node(g1, parent_label)
                             THEN add_edge(g1, parent_label, child_name, "seq-item")
                             ELSE g1]

ExpandLiteral(st, m, n) ==
    IF n.type # "Assign" THEN st
    ELSE IF n.value.type = "Dict"
    THEN FoldSeq(LAMBDA s1, tgt :
                     FoldSeq(LAMBDA s2, i :
                                 ExpandDictItem(s2, m, tgt.id, n.value.keys[i],
                                                n.value.values[i]),
                             s1, [i \in DOMAIN n.value.keys |-> i]),
                 st, SelectSeq(n.targets, IsName))
    ELSE IF n.value.type \in {"List", "Set", "Tuple"}
    THEN FoldSeq(LAMBDA s1, tgt :
                     FoldSeq(LAMBDA s2, i :
                                 ExpandSeqItem(s2, m, tgt.id, i, n.value.elts[i]),
                             s1, [i \in DOMAIN n.value.elts |-> i]),
                 st, SelectSeq(n.targets, IsName))
    ELSE st

\* the last loop; the result tells whether an exception left it
LiteralPass(g0, m, walk) ==
    FoldSeq(LAMBDA st, n : ExpandLiteral(st, m, n), [G |-> g0, raised |-> FALSE], walk)

AddModule(g, m, py_path) ==
    IF has_node(g, m) THEN g
    ELSE add_node(g, m, [kind |-> "module", label |-> m, file_path |-> py_path])

\* variant: the module node is added before the file is read and parsed
BuildModuleFirst(py_path, file, g0) ==
    LET m == Basename(py_path)
        g1 == AddModule(g0, m, py_path)
    IN IF ~file.ok THEN [G |-> g1, raised |-> FALSE]
       ELSE LET walk == Walk(Module(file.body))
                g2 == ImportPass(g1, m, walk)
                g3 == ClassPass(g2, m, walk)
                g4 == FunctionPass(g3, m, file.body)
                g5 == VarCallPass(g4, m, walk, ImportedNames(walk))
            IN LiteralPass(g5, m, walk)

\* build_graph_from_file(py_path, G) on the file found at py_path.
\* file.ok tells whether open/read/ast.parse succeed.
build_graph_from_file(py_path, file, g0) ==
    IF ~file.ok THEN [G |-> g0, raised |-> FALSE]
    ELSE LET m == Basename(py_path)
             tree == Module(file.body)
             walk == Walk(tree)
             g1 == AddModule(g0, m, py_path)
             g2 == ImportPass(g1, m, walk)
             g3 == ClassPass(g2, m, walk)
             g4 == FunctionPass(g3, m, tree.body)
             g5 == VarCallPass(g4, m, walk, ImportedNames(walk))
         IN LiteralPass(g5, m, walk)

(***************************************************************************)
(* Inputs: the files under the path.                                       *)
(***************************************************************************)
\* candidate paths, as components; two of them share a base name
Paths == << <<"p", "a.py">>, <<"q", "a.py">>, <<"q", "b.py">> >>

ClassA    == ClassDef("A", <<>>, <<>>)                             \* class A: ...
ClassB_A  == ClassDef("B", <<Name("A")>>, <<>>)                    \* class B(A): ...
\* class O:  def g(self): ...;  class A: ...;  x = []
ClassO    == ClassDef("O", <<>>,
                      << FunctionDef("g", <<"self">>, <<>>),
                         ClassDef("A", <<>>, <<>>),
                         Assign(<<Name("x")>>, ListLit(<<>>)) >>)
AssignX   == Assign(<<Name("x")>>, Constant("int", "1"))           \* x = 1
AssignY   == Assign(<<Name("y")>>, Constant("str", "'s'"))         \* y = "s"
AssignA   == Assign(<<Name("A")>>, Constant("int", "1"))           \* A = 1
ImportOs  == Import(<<Alias("os", "")>>)                           \* import os
CallFoo   == ExprStmt(Call(Name("foo"), <<Name("os")>>))           \* foo(os)
CallPrint == ExprStmt(Call(Name("print"), <<Name("os")>>))         \* print(os)
AssignD   == Assign(<<Name("d")>>, DictLit(<<NoneNode>>, <<Name("x")>>))  \* d = {**x}

\* declarations and assignments
CoreStmts == {ClassA, ClassB_A, ClassO, AssignX, AssignY, AssignA}

\* imports, calls and a dict literal with an unpacking entry
CallStmts == {ImportOs, CallFoo, CallPrint, AssignD}

\* a base class and a class derived from it
RerunStmts == {ClassA, ClassB_A}

\* a file that does not parse, and the files of at most k top-level statements
FilesUpTo(stmts, k) ==
    {[ok |-> FALSE, body |-> <<>>]} \cup
    { [ok |-> TRUE, body |-> b] : b \in UNION { [1..n -> stmts] : n \in 0..k } }

NoFiles == [p \in {} |-> [ok |-> FALSE, body |-> <<>>]]

RECURSIVE DisksOver(_, _, _, _)
\* the file sets over the given paths: at most nfiles files, budget statements
DisksOver(stmts, paths, budget, nfiles) ==
    IF paths = <<>> \/ nfiles = 0 THEN {NoFiles}
    ELSE DisksOver(stmts, Tail(paths), budget, nfiles) \cup
         UNION { { (Head(paths) :> f) @@ d :
                     d \in DisksOver(stmts, Tail(paths), budget - Len(f.body), nfiles - 1) } :
                 f \in FilesUpTo(stmts, budget) }

Perms(S) == { s \in [1..Cardinality(S) -> S] : Range(s) = S }

(***************************************************************************)
(* build_graph as a state machine.                                         *)
(***************************************************************************)
\* Path(p).suffix of the file names of the model
Suffix(name) ==
    CASE name = "a.py"  -> ".py"
      [] name = "b.py"  -> ".py"
      [] name = "a.txt" -> ".txt"

\* the path argument when it names a directory
Directory == [kind |-> "dir", at |-> <<>>]

\* the editor of video_edit.py before it is invoked
VeIdle == [pc |-> "idle"]

\* the state when build_graph is entered
Entered ==
    /\ py_files = <<>>
    /\ idx = 1
    /\ G = EmptyGraph
    /\ pc = "start"
    /\ run = 1
    /\ prev = EmptyGraph
    /\ printed = {}
    /\ ve = VeIdle

InitOver(stmts) ==
    /\ path = Directory
    /\ disk \in DisksOver(stmts, Paths, MaxStmts, MaxFiles)
    /\ Entered

Init == InitOver(CoreStmts)

\* variant: a single file is taken whatever its suffix
FindAnySuffix ==
    /\ pc = "start"
    /\ py_files' \in
          IF path.kind = "file"
          THEN {<<path.at>>}
          ELSE IF path.kind = "dir"
          THEN Perms({ p \in DOMAIN disk : Suffix(Basename(p)) = ".py" })
          ELSE {<<>>}
    /\ idx' = 1
    /\ pc' = IF py_files' = <<>> THEN "returned" ELSE "loop"
    /\ printed' = IF py_files' = <<>> THEN {"No Python files found"} ELSE {"Analyzing"}
    /\ UNCHANGED <<path, disk, G, run, prev, ve>>

\* build_graph up to its for loop.  find_python_files: a file with the suffix
\* .py is the whole list; for a directory Path.rglob yields the files in the
\* order the file system lists them, which nothing fixes, and the list is not
\* sorted; any other path gives the empty list.
FindPythonFiles ==
    /\ pc = "start"
    /\ py_files' \in
          IF path.kind = "file" /\ Suffix(Basename(path.at)) = ".py"
          THEN {<<path.at>>}
          ELSE IF path.kind = "dir"
          THEN Perms({ p \in DOMAIN disk : Suffix(Basename(p)) = ".py" })
          ELSE {<<>>}
    /\ idx' = 1
    /\ pc' = IF py_files' = <<>> THEN "returned" ELSE "loop"
    /\ printed' = IF py_files' = <<>> THEN {"No Python files found"} ELSE {"Analyzing"}
    /\ UNCHANGED <<path, disk, G, run, prev, ve>>

\* one iteration of "for py_file in py_files"
BuildFile ==
    /\ pc = "loop"
    /\ idx <= Len(py_files)
    /\ LET r == build_graph_from_file(py_files[idx], disk[py_files[idx]], G)
       IN /\ G' = r.G
          /\ pc' = IF r.raised THEN "raised" ELSE "loop"
          /\ idx' = IF r.raised THEN idx ELSE idx + 1
    /\ printed' = IF disk[py_files[idx]].ok THEN printed
                  ELSE printed \cup {"Warning: Could not parse"}
    /\ UNCHANGED <<path, disk, py_files, run, prev, ve>>

\* return G
Return ==
    /\ pc = "loop"
    /\ idx > Len(py_files)
    /\ pc' = "returned"
    /\ UNCHANGED <<path, disk, py_files, idx, G, run, prev, printed, ve>>

\* the extractor is run again on the unchanged file set
Rerun ==
    /\ pc = "returned"
    /\ run < MaxRuns
    /\ run' = run + 1
    /\ prev' = G
    /\ G' = EmptyGraph
    /\ py_files' = <<>>
    /\ idx' = 1
    /\ pc' = "start"
    /\ printed' = {}
    /\ UNCHANGED <<path, disk, ve>>

Next == FindPythonFiles \/ BuildFile \/ Return

Spec == Init /\ [][Next]_vars

InitCalls == InitOver(CallStmts)

SpecCalls == InitCalls /\ [][Next]_vars

NextRerun == FindPythonFiles \/ BuildFile \/ Return \/ Rerun

InitRerun == InitOver(RerunStmts)

SpecRerun == InitRerun /\ [][NextRerun]_vars

(***************************************************************************)
(* Vocabulary of the properties.                                           *)
(***************************************************************************)
\* the files build_graph_from_file has returned from in this invocation
Done == { py_files[i] : i \in 1..(idx - 1) }

ParsedDone == { p \in Done : disk[p].ok }

WalkOf(p) == Walk(Module(disk[p].body))

Qual(p, id) == Basename(p) \o "::" \o id

KindEnum ==
    {"module", "import", "class", "function", "builtin-function", "list", "dict",
     "set", "tuple", "int", "str", "float", "bool", "unknown"}

RelationEnum ==
    {"imports", "contains", "inherits", "method", "var", "calls", "arg",
     "dict-item", "seq-item"}

\* class declarations i and j of a walk: j declares the bare name of i as a base
DeclaresBase(w, i, j) ==
    /\ w[i].type = "ClassDef"
    /\ w[j].type = "ClassDef"
    /\ w[i].name # w[j].name
    /\ w[i].name \in Range(BaseNames(w[j]))

RECURSIVE DeclsIn(_, _, _)
\* the declarations of a statement list, each with the node of the scope that
\* lexically encloses it and the relation that attaches it
DeclsIn(stmts, m, scope) ==
    IF stmts = <<>> THEN {}
    ELSE LET n == Head(stmts)
             here ==
                 CASE n.type = "ClassDef" ->
                        {[key |-> m \o "::" \o n.name, scope |-> scope, rel |-> "contains"]}
                        \cup DeclsIn(n.body, m, m \o "::" \o n.name)
                   [] n.type = "FunctionDef" ->
                        IF scope = m
                        THEN {[key |-> m \o "::" \o n.name \o "()", scope |-> scope,
                               rel |-> "contains"]}
                        ELSE {[key |-> scope \o "." \o n.name \o "()", scope |-> scope,
                               rel |-> "method"]}
                   [] n.type = "Assign" ->
                        { [key |-> m \o "::" \o t.id, scope |-> scope, rel |-> "var"] :
                            t \in Range(SelectSeq(n.targets, IsName)) }
                   [] n.type = "If" -> DeclsIn(n.body, m, scope)
                   [] OTHER -> {}
         IN here \cup DeclsIn(Tail(stmts), m, scope)

Decls(p) == DeclsIn(disk[p].body, Basename(p), Basename(p))

\* the assignment "id = <constant of type t>" occurs somewhere in the walk
AssignsConstant(w, id, t) ==
    \E i \in DOMAIN w :
        /\ w[i].type = "Assign"
        /\ Name(id) \in Range(w[i].targets)
        /\ w[i].value.type = "Constant"
        /\ w[i].value.t = t

SameGraph(g, h) ==
    /\ Range(g.nodes) = Range(h.nodes)
    /\ \A n \in Range(g.nodes) : Get(g, n, "kind") = Get(h, n, "kind")
    /\ g.edges = h.edges

(***************************************************************************)
(* C1.  As claimed: for a file that defines a class A and a class B naming *)
(* A as a base, wherever the two declarations sit, the graph has an        *)
(* inherits edge between <module>::A and <module>::B.                      *)
(***************************************************************************)
C1_InheritsWhereverDeclared ==
    \A p \in ParsedDone :
        \A i, j \in DOMAIN WalkOf(p) :
            DeclaresBase(WalkOf(p), i, j) =>
                HasEdge(G, Qual(p, WalkOf(p)[i].name), Qual(p, WalkOf(p)[j].name),
                        "inherits")

\* C1, amended: the inherits edge between <module>::A and <module>::B is in the
\* graph whenever the declaration of A is visited before that of B in the
\* breadth-first walk of the file.
C1_InheritsWhenBaseVisitedFirst ==
    \A p \in ParsedDone :
        \A i, j \in DOMAIN WalkOf(p) :
            (i < j /\ DeclaresBase(WalkOf(p), i, j)) =>
                HasEdge(G, Qual(p, WalkOf(p)[i].name), Qual(p, WalkOf(p)[j].name),
                        "inherits")

C1_Witness ==
    /\ pc = "returned"
    /\ \E p \in ParsedDone :
          \E i, j \in DOMAIN WalkOf(p) :
              /\ i < j
              /\ DeclaresBase(WalkOf(p), i, j)
              /\ HasEdge(G, Qual(p, "A"), Qual(p, "B"), "inherits")

(***************************************************************************)
(* C2.  No edge addition brings a node into existence: every add_edge is   *)
(* executed with both endpoints already in the graph.                      *)
(***************************************************************************)
C2_EdgesJoinExistingNodes == G.implicit = {}

(***************************************************************************)
(* C3.  Every node carries a kind of the fixed enumeration and every edge  *)
(* a relation of the fixed enumeration.                                    *)
(***************************************************************************)
C3_KindsAndRelationsEnumerated ==
    /\ \A n \in Range(G.nodes) :
          "kind" \in DOMAIN G.attrs[n] /\ G.attrs[n].kind \in KindEnum
    /\ \A e \in DOMAIN G.edges : G.edges[e] \in RelationEnum

(***************************************************************************)
(* C4.  When the file at the loop position fails to read or parse, the     *)
(* step leaves the graph exactly as it was and the loop moves on to the    *)
(* next file.                                                              *)
(***************************************************************************)
C4_ParseFailureIsolated ==
    [][ (pc = "loop" /\ idx <= Len(py_files) /\ ~disk[py_files[idx]].ok)
            => (G' = G /\ pc' = "loop" /\ idx' = idx + 1) ]_vars

C4_Witness ==
    /\ pc = "returned"
    /\ \E i, j \in DOMAIN py_files :
          /\ i < j
          /\ ~disk[py_files[i]].ok
          /\ disk[py_files[j]].ok
          /\ has_node(G, Basename(py_files[j]))
          /\ ~has_node(G, Basename(py_files[i]))

(***************************************************************************)
(* C5.  build_graph_from_file never raises for a file that parsed.         *)
(***************************************************************************)
C5_NeverRaises == pc # "raised"

(***************************************************************************)
(* C6.  A second run of build_graph over the unchanged file set returns    *)
(* the graph the first run returned: same node keys, kinds and edges.      *)
(***************************************************************************)
C6_RerunIdentical == (run > 1 /\ pc = "returned") => SameGraph(G, prev)

(***************************************************************************)
(* C7.  Edges of different relations between the same pair of nodes        *)
(* coexist: every (pair, relation) that was added is in the graph.         *)
(***************************************************************************)
C7_RelationsCoexist ==
    \A t \in G.added : t[1] \in DOMAIN G.edges /\ G.edges[t[1]] = t[2]

(***************************************************************************)
(* C8.  Every contains, method and var edge joins a declared entity to the *)
(* node of the scope that lexically encloses its declaration.              *)
(***************************************************************************)
C8_EdgesFromEnclosingScope ==
    \A e \in DOMAIN G.edges :
        G.edges[e] \in {"contains", "method", "var"} =>
            \E p \in ParsedDone :
                \E d \in Decls(p) : e = {d.scope, d.key} /\ G.edges[e] = d.rel

(***************************************************************************)
(* C9.  Every inherits edge, as G.edges() lists it, has the base class     *)
(* first and the derived class second.                                     *)
(***************************************************************************)
C9_InheritsListedBaseFirst ==
    \A uv \in EdgeList(G) :
        G.edges[{uv[1], uv[2]}] = "inherits" =>
            \E p \in ParsedDone :
                \E j \in DOMAIN WalkOf(p) :
                    /\ WalkOf(p)[j].type = "ClassDef"
                    /\ Qual(p, WalkOf(p)[j].name) = uv[2]
                    /\ Get(G, uv[1], "label") \in Range(BaseNames(WalkOf(p)[j]))

(***************************************************************************)
(* C10.  For a file that contains x = 1 and y = "s", whatever else it      *)
(* contains, the final graph has <module>::x of kind int and <module>::y   *)
(* of kind str.                                                            *)
(***************************************************************************)
C10_KindsOfXAndY ==
    pc = "returned" =>
        \A p \in ParsedDone :
            (AssignsConstant(WalkOf(p), "x", "int") /\ AssignsConstant(WalkOf(p), "y", "str"))
                => /\ has_node(G, Qual(p, "x")) /\ Get(G, Qual(p, "x"), "kind") = "int"
                   /\ has_node(G, Qual(p, "y")) /\ Get(G, Qual(p, "y"), "kind") = "str"

(***************************************************************************)
(* Files with dict literals.                                               *)
(***************************************************************************)
\* d = {"k": [1, 2]}
AssignDK ==
    Assign(<<Name("d")>>,
           DictLit(<<Constant("str", "'k'")>>,
                   <<ListLit(<<Constant("int", "1"), Constant("int", "2")>>)>>))

\* d = {**x, "k": [1, 2]}
AssignDUnpackK ==
    Assign(<<Name("d")>>,
           DictLit(<<NoneNode, Constant("str", "'k'")>>,
                   <<Name("x"), ListLit(<<Constant("int", "1"), Constant("int", "2")>>)>>))

\* e = {"k": 1, "j": {"i": 1}}
AssignE ==
    Assign(<<Name("e")>>,
           DictLit(<<Constant("str", "'k'"), Constant("str", "'j'")>>,
                   <<Constant("int", "1"),
                     DictLit(<<Constant("str", "'i'")>>, <<Constant("int", "1")>>)>>))

DictStmts == {AssignDK, AssignDUnpackK, AssignE, AssignX}

InitDict == InitOver(DictStmts)

SpecDict == InitDict /\ [][Next]_vars

\* the files whose syntax tree build_graph_from_file has worked on: those it
\* returned from and the one it raised in
Processed == ParsedDone \cup (IF pc = "raised" THEN {py_files[idx]} ELSE {})

\* the assignments of a dict literal to a plain name in a walk, as
\* <<name, dict literal>>
DictAssigns(w) ==
    UNION { { <<t.id, w[i].value>> : t \in { x \in Range(w[i].targets) : x.type = "Name" } } :
            i \in { j \in DOMAIN w : w[j].type = "Assign" /\ w[j].value.type = "Dict" } }

\* the keys of the nodes a file accounts for when literals are expanded one
\* level: the module, its variables, and one child per key of a dict literal
OneLevelKeys(p) ==
    {Basename(p)}
    \cup { Qual(p, t.id) :
             t \in UNION { { x \in Range(WalkOf(p)[i].targets) : x.type = "Name" } :
                           i \in { j \in DOMAIN WalkOf(p) : WalkOf(p)[j].type = "Assign" } } }
    \cup UNION { { Qual(p, a[1]) \o "." \o Unparse(a[2].keys[k]) :
                     k \in { j \in DOMAIN a[2].keys : a[2].keys[j].type # "None" } } :
                 a \in DictAssigns(WalkOf(p)) }

(***************************************************************************)
(* C11.  For every assignment of a dict literal to a plain name d in a     *)
(* processed file, each key of the literal has a child node keyed          *)
(* <module>::d.<rendered key> whose kind is guess_type of the key's value  *)
(* and which a dict-item edge joins to d's node; the expansion is one      *)
(* level deep, so the graph holds no node for the elements of a value.     *)
(***************************************************************************)
C11_DictChildrenOneLevel ==
    /\ \A p \in Processed :
          \A a \in DictAssigns(WalkOf(p)) :
              \A k \in DOMAIN a[2].keys :
                  a[2].keys[k].type # "None" =>
                      LET child == Qual(p, a[1]) \o "." \o Unparse(a[2].keys[k])
                      IN /\ has_node(G, child)
                         /\ Get(G, child, "kind") = guess_type(a[2].values[k])
                         /\ HasEdge(G, Qual(p, a[1]), child, "dict-item")
    /\ Range(G.nodes) \subseteq UNION { OneLevelKeys(p) : p \in Processed }

(***************************************************************************)
(* Files with assignments of calls and constants.                          *)
(***************************************************************************)
AssignListCall   == Assign(<<Name("v")>>, Call(Name("List"), <<>>))         \* v = List()
AssignModuleCall == Assign(<<Name("w")>>, Call(Name("Module"), <<>>))       \* w = Module()
AssignFooCall    == Assign(<<Name("v")>>, Call(Name("foo"), <<>>))          \* v = foo()
AssignAttrCall   == Assign(<<Name("w")>>, Call(Attribute("x.list"), <<>>))  \* w = x.list()
AssignNone       == Assign(<<Name("v")>>, Constant("NoneType", "None"))     \* v = None

GuessStmts == {AssignListCall, AssignModuleCall, AssignFooCall, AssignAttrCall, AssignNone}

InitGuess == InitOver(GuessStmts)

SpecGuess == InitGuess /\ [][Next]_vars

\* the kinds the value of an assignment may be given
ValueKinds == {"list", "dict", "set", "tuple", "int", "str", "float", "bool", "unknown"}

\* a call whose callee is a bare identifier that, lower-cased, is none of the
\* container and scalar kind names
IsOtherCall(n) ==
    /\ n.type = "Call"
    /\ n.func.type = "Name"
    /\ Lower(n.func.id) \notin ValueKinds \ {"unknown"}

(***************************************************************************)
(* C12.  guess_type of every assigned value is one of list, dict, set,     *)
(* tuple, int, str, float, bool, unknown, and so is the kind of the        *)
(* variable's node; a call of a bare identifier that is none of the        *)
(* container and scalar kind names, an attribute-style call and a constant *)
(* of another type give unknown.                                           *)
(***************************************************************************)
C12_GuessTypeKinds ==
    \A p \in ParsedDone :
        \A i \in DOMAIN WalkOf(p) :
            WalkOf(p)[i].type = "Assign" =>
                LET v == WalkOf(p)[i].value
                IN /\ guess_type(v) \in ValueKinds
                   /\ \A t \in Range(SelectSeq(WalkOf(p)[i].targets, IsName)) :
                          Get(G, Qual(p, t.id), "kind") \in ValueKinds
                   /\ IsOtherCall(v) => guess_type(v) = "unknown"
                   /\ (v.type = "Call" /\ v.func.type = "Attribute") => guess_type(v) = "unknown"
                   /\ (v.type = "Constant" /\ v.t \notin ValueKinds) => guess_type(v) = "unknown"

(***************************************************************************)
(* Any path argument: a directory, a single file, or nothing at all.       *)
(***************************************************************************)
\* the candidate paths and a file without the source extension
PathsAny == Paths \o << <<"p", "a.txt">> >>

PathStmts == {AssignX, ClassA}

InitPath ==
    /\ \/ /\ path = Directory
          /\ disk \in DisksOver(PathStmts, PathsAny, MaxStmts, MaxFiles)
       \/ /\ path \in { [kind |-> "file", at |-> PathsAny[i]] : i \in DOMAIN PathsAny }
          /\ disk \in { (path.at :> f) : f \in FilesUpTo(PathStmts, MaxStmts) }
       \/ /\ path = [kind |-> "missing", at |-> <<>>]
          /\ disk = NoFiles
    /\ Entered

SpecPath == InitPath /\ [][Next]_vars

\* the path yields no file with the source extension
NoMatchingFiles ==
    \/ path.kind = "missing"
    \/ path.kind = "file" /\ Suffix(Basename(path.at)) # ".py"
    \/ path.kind = "dir" /\ \A p \in DOMAIN disk : Suffix(Basename(p)) # ".py"

(***************************************************************************)
(* C13.  When the path yields no matching source file, build_graph has,    *)
(* as soon as it has looked for the files, returned a graph with no node   *)
(* and no edge and printed that no files were found; it processes no file  *)
(* and does not raise.                                                     *)
(***************************************************************************)
C13_NoFilesEmptyGraph ==
    (NoMatchingFiles /\ pc # "start") =>
        /\ pc = "returned"
        /\ G.nodes = <<>>
        /\ DOMAIN G.edges = {}
        /\ printed = {"No Python files found"}

C13_Witness ==
    /\ pc = "returned"
    /\ path.kind = "file"
    /\ Suffix(Basename(path.at)) = ".txt"
    /\ disk[path.at].ok
    /\ disk[path.at].body # <<>>
    /\ G.nodes = <<>>
    /\ "No Python files found" \in printed

(***************************************************************************)
(* video_edit.py: the editing assistant.  It shells out to ffmpeg,         *)
(* ffprobe, whisper and ollama through run_cmd; each invocation is an      *)
(* input of the model: the tool succeeds or fails, and what it prints is   *)
(* drawn from a small set.  Times are whole seconds.                       *)
(*                                                                         *)
(* ve holds one invocation: entry, the function entered; pc, the step it   *)
(* is at; cmds, the tools invoked so far; failed, whether one of them      *)
(* failed or delivered nothing usable; exc, the exception that ended the   *)
(* invocation; duration and stdout, what ffprobe and ollama print.         *)
(***************************************************************************)
MaxItems == 2     \* entries of the JSON array printed by ollama

gvars == <<path, disk, py_files, idx, G, pc, run, prev, printed>>

\* What float() makes of a value: a finite number, the not-a-number value (the
\* JSON token NaN, which json.loads accepts, or the string "nan"), or
\* ValueError for a value float() rejects
Num(v) == [num |-> TRUE, nan |-> FALSE, v |-> v]
NaN == [num |-> TRUE, nan |-> TRUE, v |-> 0]
Malformed == [num |-> FALSE, nan |-> FALSE, v |-> 0]

\* the objects of a plan: {"start_sec": ..., "end_sec": ...}
Items ==
    { [start_sec |-> s, end_sec |-> e] :
        s \in {Num(-5), Num(10), Num(70), Malformed, NaN},
        e \in {Num(5), Num(60), Num(100), NaN} }

JsonArray(items) == [type |-> "array", items |-> items]
JsonNumber       == [type |-> "number", items |-> <<>>]
JsonObject       == [type |-> "object", items |-> <<>>]

\* what "ollama run" prints: nothing, text that is no JSON, or a JSON value
Stdouts ==
    { [kind |-> "empty", value |-> JsonArray(<<>>)],
      [kind |-> "garbage", value |-> JsonArray(<<>>)] }
    \cup { [kind |-> "json", value |-> j] :
             j \in {JsonNumber, JsonObject}
                   \cup { JsonArray(s) : s \in UNION { [1..n -> Items] : n \in 0..MaxItems } } }

\* the durations ffprobe reports
Durations == {0, 45, 90}

\* float comparisons: every comparison with not-a-number is false
Lt(a, b) == ~a.nan /\ ~b.nan /\ a.v < b.v
Le(a, b) == ~a.nan /\ ~b.nan /\ a.v <= b.v

\* max(a, b) and min(a, b): the first argument unless the second is greater
\* (less)
Max2(a, b) == IF Lt(a, b) THEN b ELSE a
Min2(a, b) == IF Lt(b, a) THEN b ELSE a

\* one iteration of parse_plan's loop; float() of a malformed value raises
\* inside the try, and the item is skipped
ParseItem(plans, item, duration) ==
    IF ~item.start_sec.num \/ ~item.end_sec.num THEN plans
    ELSE LET start == Max2(Num(0), item.start_sec)
             end == item.end_sec
         IN IF Le(end, start) THEN plans
            ELSE IF Le(Num(duration), start) THEN plans
            ELSE Append(plans, [start_sec |-> start,
                                end_sec |-> Min2(end, Num(duration))])

\* parse_plan(items, duration).  A JSON number is not iterable: TypeError.
\* Iterating a JSON object yields its keys, strings without .get: all skipped.
parse_plan(items, duration) ==
    CASE items.type = "number" -> [exc |-> "TypeError", plans |-> <<>>]
      [] items.type = "object" -> [exc |-> "", plans |-> <<>>]
      [] OTHER -> [exc |-> "",
                   plans |-> FoldSeq(LAMBDA acc, it : ParseItem(acc, it, duration),
                                     <<>>, items.items)]

\* ollama_generate_plan: the command's outcome and output to the returned
\* list.  Every exception inside the try, the one json.loads raises included,
\* is re-raised as CommandError.
ollama_generate_plan(ok, stdout) ==
    IF ~ok THEN [exc |-> "CommandError", value |-> JsonArray(<<>>)]
    ELSE IF stdout.kind = "empty" THEN [exc |-> "", value |-> JsonArray(<<>>)]
    ELSE IF stdout.kind = "garbage" THEN [exc |-> "CommandError", value |-> JsonArray(<<>>)]
    ELSE [exc |-> "", value |-> stdout.value]

\* the tools ensure_dependencies probes, in order
Probes == <<"ffmpeg -version", "ffprobe -version", "whisper --help", "ollama --help">>

Raise(v, e) == [v EXCEPT !.pc = "raised", !.exc = e]

InitVideo ==
    /\ path = Directory
    /\ disk = NoFiles
    /\ py_files = <<>>
    /\ idx = 1
    /\ G = EmptyGraph
    /\ pc = "start"
    /\ run = 1
    /\ prev = EmptyGraph
    /\ printed = {}
    /\ \E entry \in {"run_longform", "run_shorts", "generate_plan"},
          so \in Stdouts, d \in Durations :
          ve = [entry |-> entry,
                pc |-> IF entry = "generate_plan" THEN "extract_audio"
                       ELSE "ensure_dependencies",
                probe |-> 1, stdout |-> so, duration |-> d,
                cmds |-> <<>>, failed |-> FALSE, exc |-> "", ollama |-> "none",
                raw_plan |-> JsonArray(<<>>), plans |-> <<>>]

\* ensure_dependencies: one ensure_tool
EnsureTool ==
    /\ ve.pc = "ensure_dependencies"
    /\ \E ok \in BOOLEAN :
          LET v == [ve EXCEPT !.cmds = Append(@, Probes[ve.probe])]
          IN ve' = IF ~ok THEN Raise([v EXCEPT !.failed = TRUE], "CommandError")
                   ELSE IF ve.probe < Len(Probes) THEN [v EXCEPT !.probe = @ + 1]
                   ELSE [v EXCEPT !.pc = IF ve.entry = "run_shorts"
                                         THEN "get_video_duration"
                                         ELSE "call_generate_plan"]
    /\ UNCHANGED gvars

\* get_video_duration: ffprobe fails, or prints something float() rejects, or
\* prints the duration
GetVideoDuration ==
    /\ ve.pc = "get_video_duration"
    /\ \E out \in {"ok", "failed", "unparsable"} :
          LET v == [ve EXCEPT !.cmds = Append(@, "ffprobe")]
          IN ve' = IF out # "ok" THEN Raise([v EXCEPT !.failed = TRUE], "CommandError")
                   ELSE [v EXCEPT !.pc = IF ve.entry = "run_shorts"
                                         THEN "call_generate_plan"
                                         ELSE "ollama_generate_plan"]
    /\ UNCHANGED gvars

\* run_longform and run_shorts: the call generate_plan(...,
\* ollama_model=tollama_model, ...).  The name tollama_model is bound nowhere,
\* so evaluating the arguments raises NameError and the statements after the
\* call are never reached.
CallGeneratePlan ==
    /\ ve.pc = "call_generate_plan"
    /\ ve' = Raise(ve, "NameError")
    /\ UNCHANGED gvars

\* generate_plan: extract_audio
ExtractAudio ==
    /\ ve.pc = "extract_audio"
    /\ \E ok \in BOOLEAN :
          LET v == [ve EXCEPT !.cmds = Append(@, "ffmpeg extract")]
          IN ve' = IF ok THEN [v EXCEPT !.pc = "transcribe_with_whisper"]
                   ELSE Raise([v EXCEPT !.failed = TRUE], "CommandError")
    /\ UNCHANGED gvars

\* generate_plan: transcribe_with_whisper.  whisper fails, or leaves no
\* transcript, or leaves one json.loads rejects, or leaves a transcript
TranscribeWithWhisper ==
    /\ ve.pc = "transcribe_with_whisper"
    /\ \E out \in {"ok", "failed", "missing", "unparsable"} :
          LET v == [ve EXCEPT !.cmds = Append(@, "whisper")]
          IN ve' = CASE out = "ok" -> [v EXCEPT !.pc = "get_video_duration"]
                     [] out = "unparsable" ->
                            Raise([v EXCEPT !.failed = TRUE], "JSONDecodeError")
                     [] OTHER -> Raise([v EXCEPT !.failed = TRUE], "CommandError")
    /\ UNCHANGED gvars

\* generate_plan: raw_plan = ollama_generate_plan(prompt, ollama_model)
OllamaGeneratePlan ==
    /\ ve.pc = "ollama_generate_plan"
    /\ \E ok \in BOOLEAN :
          LET r == ollama_generate_plan(ok, ve.stdout)
              v == [ve EXCEPT !.cmds = Append(@, "ollama run"),
                              !.ollama = IF ok THEN "ok" ELSE "failed",
                              !.failed = @ \/ ~ok]
          IN ve' = IF r.exc # "" THEN Raise(v, r.exc)
                   ELSE [v EXCEPT !.pc = "parse_plan", !.raw_plan = r.value]
    /\ UNCHANGED gvars

\* generate_plan: plans = parse_plan(raw_plan, duration), the fallback clip
\* when there is none, and the return
ParsePlan ==
    /\ ve.pc = "parse_plan"
    /\ LET r == parse_plan(ve.raw_plan, ve.duration)
       IN ve' = IF r.exc # "" THEN Raise(ve, r.exc)
                ELSE [ve EXCEPT !.pc = "returned",
                                !.plans = IF r.plans = <<>>
                                          THEN << [start_sec |-> Num(0),
                                                   end_sec |-> Min2(Num(60),
                                                                    Num(ve.duration))] >>
                                          ELSE r.plans]
    /\ UNCHANGED gvars

NextVideo ==
    \/ EnsureTool
    \/ GetVideoDuration
    \/ CallGeneratePlan
    \/ ExtractAudio
    \/ TranscribeWithWhisper
    \/ OllamaGeneratePlan
    \/ ParsePlan

SpecVideo == InitVideo /\ [][NextVideo]_vars

\* the interpreter runs the invocation on until it returns or raises
SpecVideoLive == InitVideo /\ [][NextVideo]_vars /\ WF_vars(NextVideo)

(***************************************************************************)
(* C14.  An invocation of run_longform or run_shorts in which no tool      *)
(* invocation fails eventually reaches its output step: for run_longform   *)
(* the concatenation, invoked last, after the cuts; for run_shorts the     *)
(* rendering of the clips.                                                 *)
(***************************************************************************)
C14_ReachesOutput ==
    (ve.entry \in {"run_longform", "run_shorts"}) =>
        <>( \/ ve.failed
            \/ /\ ve.pc = "done"
               /\ ve.entry = "run_longform" =>
                      /\ ve.cmds # <<>>
                      /\ ve.cmds[Len(ve.cmds)] = "ffmpeg concat"
                      /\ Cardinality({ i \in DOMAIN ve.cmds : ve.cmds[i] = "ffmpeg concat" }) = 1 )

(***************************************************************************)
(* C15.  When the ollama command succeeds, ollama_generate_plan does not   *)
(* raise CommandError, and for output that is empty or is no JSON it       *)
(* returns the empty list.                                                 *)
(***************************************************************************)
C15_OllamaEmptyOnUnparsable ==
    (ve.ollama = "ok") =>
        /\ ve.exc # "CommandError"
        /\ ve.stdout.kind \in {"empty", "garbage"} =>
               (ve.pc = "parse_plan" /\ ve.raw_plan = JsonArray(<<>>))

(***************************************************************************)
(* Vocabulary of the properties about calls.                               *)
(***************************************************************************)
\* the call expressions of a file, in walk order
CallsOf(p) ==
    LET IsCall(n) == n.type = "Call"
    IN SelectSeq(WalkOf(p), IsCall)

\* the call is treated as built-in/external in the file at p: attribute-style,
\* or a bare identifier that is imported there or a builtin
IsExternalCall(p, c) ==
    \/ c.func.type = "Attribute"
    \/ /\ c.func.type = "Name"
       /\ c.func.id \in ImportedNames(WalkOf(p)) \cup Builtins

\* the renderings of a call's positional arguments
RenderArgs(c) == [i \in DOMAIN c.args |-> RenderArg(c.args[i])]

(***************************************************************************)
(* C16.  For every external call in a processed module M the graph has a   *)
(* calls edge between M's module node and the callee's node, also when an  *)
(* earlier file had created the callee's node.                             *)
(***************************************************************************)
C16_CallsEdgeFromEveryCaller ==
    \A p \in ParsedDone :
        \A c \in Range(CallsOf(p)) :
            IsExternalCall(p, c) => HasEdge(G, Basename(p), FuncName(c), "calls")

(***************************************************************************)
(* Files with several calls of the same builtin.                           *)
(***************************************************************************)
CallPrintInt  == ExprStmt(Call(Name("print"), <<Constant("int", "1")>>))    \* print(1)
CallPrintNone == ExprStmt(Call(Name("print"), <<>>))                        \* print()

UsageStmts == {CallPrint, CallPrintInt, CallPrintNone}

InitUsage == InitOver(UsageStmts)

SpecUsage == InitUsage /\ [][Next]_vars

\* the calls of the files processed so far, in the order they were handled
CallsSoFar == Flatten([i \in 1..(idx - 1) |-> CallsOf(py_files[i])])

\* the usage example that renders a call
UsageOf(c) == CalleeText(c) \o "(" \o JoinComma(RenderArgs(c)) \o ")"

(***************************************************************************)
(* C17.  After any sequence of external calls, the callee's node carries   *)
(* the renderings of the most recent call's positional arguments in both   *)
(* its params and its usage_example attributes.                            *)
(***************************************************************************)
C17_AttributesOfLatestCall ==
    \A i \in DOMAIN CallsSoFar :
        LET c == CallsSoFar[i]
        IN (/\ pc # "raised"
            /\ \A j \in DOMAIN CallsSoFar : j > i => FuncName(CallsSoFar[j]) # FuncName(c))
           => /\ has_node(G, FuncName(c))
              /\ Get(G, FuncName(c), "params") = RenderArgs(c)
              /\ Get(G, FuncName(c), "usage_example") = UsageOf(c)

(***************************************************************************)
(* Files with function declarations and calls.                             *)
(***************************************************************************)
DefFoo   == FunctionDef("foo", <<"a">>, <<>>)       \* def foo(a): ...
DefPrint == FunctionDef("print", <<"a">>, <<>>)     \* def print(a): ...

FuncStmts == {ImportOs, DefFoo, CallFoo, DefPrint, CallPrintInt}

InitFuncs == InitOver(FuncStmts)

SpecFuncs == InitFuncs /\ [][Next]_vars

\* the names of the functions declared at the top level of a file
TopLevelFunctions(p) ==
    { disk[p].body[i].name :
        i \in { j \in DOMAIN disk[p].body : disk[p].body[j].type = "FunctionDef" } }

\* the processed files that call the bare identifier id
CallersOf(id) ==
    { p \in ParsedDone :
        \E c \in Range(CallsOf(p)) : c.func.type = "Name" /\ c.func.id = id }

(***************************************************************************)
(* C18.  A call of a bare identifier in a processed module M has a         *)
(* builtin-function node 'name()' when the name is none of the functions   *)
(* declared in M (a call to an undeclared name is external), and there is  *)
(* no such node when every module that calls the name declares it, be the  *)
(* name that of a builtin or of an import.                                 *)
(***************************************************************************)
C18_ExternalIffUndeclared ==
    \A p \in ParsedDone :
        \A c \in Range(CallsOf(p)) :
            c.func.type = "Name" =>
                /\ c.func.id \notin TopLevelFunctions(p) =>
                       /\ has_node(G, FuncName(c))
                       /\ Get(G, FuncName(c), "kind") = "builtin-function"
                /\ (\A q \in CallersOf(c.func.id) : c.func.id \in TopLevelFunctions(q)) =>
                       ~has_node(G, FuncName(c))

(***************************************************************************)
(* C19.  Calls to a function declared at the top level of the calling      *)
(* module add no node and no edge, whatever their arguments: when every    *)
(* module that calls a name declares it, the graph has no node 'name()'    *)
(* and no edge that ends at one.                                           *)
(***************************************************************************)
C19_DeclaredCallAddsNothing ==
    \A p \in ParsedDone :
        \A c \in Range(CallsOf(p)) :
            (/\ c.func.type = "Name"
             /\ \A q \in CallersOf(c.func.id) : c.func.id \in TopLevelFunctions(q))
            => /\ FuncName(c) \notin Range(G.nodes)
               /\ \A e \in DOMAIN G.edges : FuncName(c) \notin e

(***************************************************************************)
(* Files with import statements.                                           *)
(***************************************************************************)
FromRel == ImportFrom("", <<Alias("x", "")>>)       \* from . import x
FromAB  == ImportFrom("a.b", <<Alias("c", "")>>)    \* from a.b import c

ImportStmts == {ImportOs, FromRel, FromAB}

InitImports == InitOver(ImportStmts)

SpecImports == InitImports /\ [][Next]_vars

\* the node n stands for an import of the module m: kind import, imports edge
IsImportOf(m, n) ==
    /\ has_node(G, n)
    /\ Get(G, n, "kind") = "import"
    /\ HasEdge(G, m, n, "imports")

(***************************************************************************)
(* C20.  After a module M is processed, every name of each of its import   *)
(* statements, and each of its from-import statements by its module or,    *)
(* for a relative one without a module name, by one of its target names,   *)
(* is a node of kind import joined to M's module node by an imports edge;  *)
(* a name imported by several modules is one node joined to each of them.  *)
(***************************************************************************)
C20_EveryImportRepresented ==
    \A p \in ParsedDone :
        \A i \in DOMAIN WalkOf(p) :
            LET n == WalkOf(p)[i]
            IN /\ n.type = "Import" =>
                      \A a \in Range(n.names) : IsImportOf(Basename(p), a.name)
               /\ n.type = "ImportFrom" =>
                      \E key \in (IF n.module # "" THEN {n.module} ELSE {})
                                 \cup { a.name : a \in Range(n.names) } :
                          IsImportOf(Basename(p), key)

(***************************************************************************)
(* Vocabulary of the properties about base classes.                        *)
(***************************************************************************)
\* some processed file declares a class of that bare name
ClassDeclared(b) ==
    \E q \in ParsedDone :
        \E i \in DOMAIN WalkOf(q) : WalkOf(q)[i].type = "ClassDef" /\ WalkOf(q)[i].name = b

\* the nodes labelled b that an inherits edge joins to the class node cl
BasesOf(cl, b) ==
    { n \in Range(G.nodes) : Get(G, n, "label") = b /\ HasEdge(G, n, cl, "inherits") }

(***************************************************************************)
(* C21.  For every base name b that a class of a processed module M        *)
(* declares: when M declares a class b before it, the inherits edge is     *)
(* attached to M's class b; a node of another key is used only if it is a  *)
(* class; and there is no inherits edge for b when no class b is declared  *)
(* anywhere.                                                               *)
(***************************************************************************)
C21_BaseResolvedToClass ==
    \A p \in ParsedDone :
        \A j \in DOMAIN WalkOf(p) :
            WalkOf(p)[j].type = "ClassDef" =>
                \A b \in Range(BaseNames(WalkOf(p)[j])) :
                    LET cl == Qual(p, WalkOf(p)[j].name)
                    IN /\ (\E i \in 1..(j - 1) : DeclaresBase(WalkOf(p), i, j)
                                                 /\ WalkOf(p)[i].name = b)
                          => HasEdge(G, Qual(p, b), cl, "inherits")
                       /\ \A n \in BasesOf(cl, b) :
                              n # Qual(p, b) => Get(G, n, "kind") = "class"
                       /\ ~ClassDeclared(b) => BasesOf(cl, b) = {}

(***************************************************************************)
(* Files with repeated declarations.                                       *)
(***************************************************************************)
DefFooBC  == FunctionDef("foo", <<"b", "c">>, <<>>)              \* def foo(b, c): ...
ClassA_A  == ClassDef("A", <<Name("A")>>, <<>>)                 \* class A(A): ...

DupStmts == {DefFoo, DefFooBC, ClassA, ClassA_A}

InitDups == InitOver(DupStmts)

SpecDups == InitDups /\ [][Next]_vars

IsClassDef(n) == n.type = "ClassDef"

\* the top-level function declarations, and the class declarations, that have
\* been processed under the module key m, in the order they were handled
FunctionsUnder(m) ==
    Flatten([i \in 1..(idx - 1) |->
                IF disk[py_files[i]].ok /\ Basename(py_files[i]) = m
                THEN SelectSeq(disk[py_files[i]].body, IsFunctionDef) ELSE <<>>])

ClassesUnder(m) ==
    Flatten([i \in 1..(idx - 1) |->
                IF disk[py_files[i]].ok /\ Basename(py_files[i]) = m
                THEN SelectSeq(WalkOf(py_files[i]), IsClassDef) ELSE <<>>])

\* the first, and the last, declaration of that name in a sequence
FirstNamed(decls, name) ==
    decls[Min({ i \in DOMAIN decls : decls[i].name = name })]

LastNamed(decls, name) ==
    decls[CHOOSE i \in DOMAIN decls :
              /\ decls[i].name = name
              /\ \A k \in DOMAIN decls : decls[k].name = name => k <= i]

(***************************************************************************)
(* C22.  The node of a top-level function keeps what its first declaration *)
(* gave it: a later declaration under the same key <module>::<name>() is   *)
(* skipped, leaving the node's params and its contains edge as they were.  *)
(* The node of a class carries the bases of its last declaration: a class  *)
(* redefined under the same key is overwritten.                            *)
(***************************************************************************)
C22_FirstFunctionWins ==
    \A m \in { Basename(p) : p \in ParsedDone } :
        /\ \A i \in DOMAIN FunctionsUnder(m) :
              LET key == m \o "::" \o FunctionsUnder(m)[i].name \o "()"
              IN /\ has_node(G, key)
                 /\ Get(G, key, "kind") = "function"
                 /\ Get(G, key, "params") = FirstNamed(FunctionsUnder(m),
                                                       FunctionsUnder(m)[i].name).params
                 /\ HasEdge(G, m, key, "contains")
        /\ \A i \in DOMAIN ClassesUnder(m) :
              LET key == m \o "::" \o ClassesUnder(m)[i].name
              IN /\ has_node(G, key)
                 /\ Get(G, key, "bases") = BaseNames(LastNamed(ClassesUnder(m),
                                                               ClassesUnder(m)[i].name))

C22_Witness ==
    /\ pc = "returned"
    /\ \E m \in { Basename(p) : p \in ParsedDone } :
          /\ \E i, j \in DOMAIN FunctionsUnder(m) :
                /\ i < j
                /\ FunctionsUnder(m)[i] = DefFoo
                /\ FunctionsUnder(m)[j] = DefFooBC
          /\ Get(G, m \o "::foo()", "params") = <<"a">>
          /\ HasEdge(G, m, m \o "::foo()", "contains")

(***************************************************************************)
(* The loop of build_graph as a function of the processing order.          *)
(***************************************************************************)
\* for py_file in order: build_graph_from_file(py_file, G), from g0
BuildAll(order, g0) ==
    FoldSeq(LAMBDA g, p : build_graph_from_file(p, disk[p], g).G, g0, order)

(***************************************************************************)
(* C23.  The graph build_graph returns is the graph that processing the    *)
(* same files in any other order gives: same node keys, same kinds, same   *)
(* relation-tagged edges.                                                  *)
(***************************************************************************)
C23_OrderIndependent ==
    pc = "returned" =>
        \A order \in Perms(DOMAIN disk) : SameGraph(G, BuildAll(order, EmptyGraph))

(***************************************************************************)
(* C24.  build_graph_from_file is idempotent on the shared graph: applied  *)
(* a second time to the file it has just processed, on the graph that the  *)
(* first application left, it changes no node, no node attribute and no    *)
(* edge.                                                                   *)
(***************************************************************************)
C24_SecondApplicationChangesNothing ==
    (pc = "loop" /\ idx > 1) =>
        LET p     == py_files[idx - 1]
            again == build_graph_from_file(p, disk[p], G).G
        IN /\ again.nodes = G.nodes
           /\ again.attrs = G.attrs
           /\ again.edges = G.edges

(***************************************************************************)
(* C25.  Node kinds are stable: at every point of a build, the module node *)
(* of every processed file has kind module, every class a processed file   *)
(* declares has a node of kind class that a contains edge attaches to the  *)
(* module, and every top-level function has a node of kind function that a *)
(* contains edge attaches to the module -- no later pass and no later file *)
(* has changed them.                                                       *)
(***************************************************************************)
C25_DeclaredKindsKept ==
    \A p \in ParsedDone :
        /\ Get(G, Basename(p), "kind") = "module"
        /\ \A i \in DOMAIN WalkOf(p) :
               WalkOf(p)[i].type = "ClassDef" =>
                   /\ Get(G, Qual(p, WalkOf(p)[i].name), "kind") = "class"
                   /\ HasEdge(G, Basename(p), Qual(p, WalkOf(p)[i].name), "contains")
        /\ \A i \in DOMAIN disk[p].body :
               disk[p].body[i].type = "FunctionDef" =>
                   /\ Get(G, Qual(p, disk[p].body[i].name \o "()"), "kind") = "function"
                   /\ HasEdge(G, Basename(p), Qual(p, disk[p].body[i].name \o "()"), "contains")

(***************************************************************************)
(* C26.  After build_graph, distinct parsed files have distinct module     *)
(* nodes: there are as many nodes of kind module as files that parsed, the *)
(* module node of each file records that file's path, and the node of each *)
(* top-level function carries the params of the first declaration of that  *)
(* name in its own file (it was not skipped for another file's node).      *)
(***************************************************************************)
C26_OneModuleNodePerFile ==
    pc = "returned" =>
        /\ Cardinality({ n \in Range(G.nodes) : Get(G, n, "kind") = "module" })
               = Cardinality(ParsedDone)
        /\ \A p \in ParsedDone :
               /\ Get(G, Basename(p), "file_path") = p
               /\ \A f \in Range(SelectSeq(disk[p].body, IsFunctionDef)) :
                      Get(G, Qual(p, f.name \o "()"), "params")
                          = FirstNamed(SelectSeq(disk[p].body, IsFunctionDef), f.name).params

(***************************************************************************)
(* Files that assign literals of different shapes to one name.             *)
(***************************************************************************)
\* x = [1, 2]
AssignXList2 == Assign(<<Name("x")>>, ListLit(<<Constant("int", "1"), Constant("int", "2")>>))
\* x = [1]
AssignXList1 == Assign(<<Name("x")>>, ListLit(<<Constant("int", "1")>>))
\* x = {'a': 1}
AssignXDict  == Assign(<<Name("x")>>, DictLit(<<Constant("str", "'a'")>>, <<Constant("int", "1")>>))

LiteralStmts == {AssignXList2, AssignXList1, AssignXDict, AssignX}

InitLiterals == InitOver(LiteralStmts)

SpecLiterals == InitLiterals /\ [][Next]_vars

\* the values assigned to the plain name id under the module key m, in the
\* order the assignments were handled
ValuesAssigned(m, id) ==
    Flatten([i \in 1..(idx - 1) |->
                IF disk[py_files[i]].ok /\ Basename(py_files[i]) = m
                THEN LET as == SelectSeq(WalkOf(py_files[i]),
                                         LAMBDA n : n.type = "Assign" /\ Name(id) \in Range(n.targets))
                     IN [k \in DOMAIN as |-> as[k].value]
                ELSE <<>>])

\* the plain names assigned in a processed file
NamesAssigned(p) ==
    UNION { { t.id : t \in { x \in Range(WalkOf(p)[i].targets) : x.type = "Name" } } :
            i \in { j \in DOMAIN WalkOf(p) : WalkOf(p)[j].type = "Assign" } }

\* the nodes that an edge of that relation joins to n
LiteralChildren(n, rel) == { c \in Range(G.nodes) : HasEdge(G, n, c, rel) }

(***************************************************************************)
(* C27.  In the final graph the literal children of a variable agree with  *)
(* the variable's node: a variable with dict-item children has kind dict;  *)
(* a variable with seq-item children has kind list, set or tuple, and its  *)
(* seq-item children are exactly the indices 0..n-1 of the literal that    *)
(* was assigned to it last.                                                *)
(***************************************************************************)
C27_LiteralChildrenAgree ==
    pc = "returned" =>
        \A p \in ParsedDone : \A id \in NamesAssigned(p) :
            LET n    == Qual(p, id)
                vals == ValuesAssigned(Basename(p), id)
                last == vals[Len(vals)]
            IN /\ LiteralChildren(n, "dict-item") # {} => Get(G, n, "kind") = "dict"
               /\ LiteralChildren(n, "seq-item") # {} =>
                      /\ Get(G, n, "kind") \in {"list", "set", "tuple"}
                      /\ last.type \in {"List", "Set", "Tuple"}
                      /\ LiteralChildren(n, "seq-item")
                             = { n \o "[" \o ToString(i - 1) \o "]" : i \in DOMAIN last.elts }

(***************************************************************************)
(* C28.  In every reachable graph each inherits edge joins two distinct    *)
(* nodes that both have kind class: there is no inherits self-loop and no  *)
(* inherits edge touching a node of another kind.                          *)
(***************************************************************************)
C28_InheritsJoinsDistinctClasses ==
    \A e \in DOMAIN G.edges :
        G.edges[e] = "inherits" =>
            /\ Cardinality(e) = 2
            /\ \A n \in e : Get(G, n, "kind") = "class"

(***************************************************************************)
(* Vocabulary of the properties about clips.                               *)
(***************************************************************************)
\* 0 <= start_sec < end_sec <= duration
ClipWithin(clip, duration) ==
    /\ Le(Num(0), clip.start_sec)
    /\ Lt(clip.start_sec, clip.end_sec)
    /\ Le(clip.end_sec, Num(duration))

\* the item is malformed, or after clamping its start to 0 it has
\* end <= start or start >= duration
Dropped(item, duration) ==
    \/ ~item.start_sec.num
    \/ ~item.end_sec.num
    \/ Le(item.end_sec, Max2(Num(0), item.start_sec))
    \/ Le(Num(duration), Max2(Num(0), item.start_sec))

\* the items that are kept, in their own order
KeptItems(items, duration) ==
    SelectSeq(items, LAMBDA item : ~Dropped(item, duration))

(***************************************************************************)
(* C29.  For the list of plan items and the duration that generate_plan    *)
(* passed to it, parse_plan does not raise, every clip it returns has      *)
(* 0 <= start_sec < end_sec <= duration, and the clips are those of the    *)
(* items that are not dropped, one per item in the items' order, with the  *)
(* item's start clamped at 0.                                              *)
(***************************************************************************)
C29_ClipsWithinDuration ==
    (ve.pc = "returned" /\ ve.raw_plan.type = "array") =>
        LET r    == parse_plan(ve.raw_plan, ve.duration)
            kept == KeptItems(ve.raw_plan.items, ve.duration)
        IN /\ r.exc = ""
           /\ \A i \in DOMAIN r.plans : ClipWithin(r.plans[i], ve.duration)
           /\ Len(r.plans) = Len(kept)
           /\ \A i \in DOMAIN r.plans :
                  r.plans[i].start_sec = Max2(Num(0), kept[i].start_sec)

(***************************************************************************)
(* C30.  Whatever duration ffprobe reported and whatever plan the LLM      *)
(* returned, generate_plan does not fail on the plan, and the list it      *)
(* returns is not empty and holds only clips with                          *)
(* 0 <= start_sec < end_sec <= duration, the fallback clip included.       *)
(***************************************************************************)
C30_PlanNonEmptyWithinDuration ==
    /\ ve.exc # "TypeError"
    /\ ve.pc = "returned" =>
           /\ ve.plans # <<>>
           /\ \A i \in DOMAIN ve.plans : ClipWithin(ve.plans[i], ve.duration)

=============================================================================
